---- MODULE Spec2Model ----
(***************************************************************************)
(* Model of Portfolio.get_realized_profits (src/src/portfolio.py), the     *)
(* FIFO lot-matching / realized-profit engine of crypto_portfolio.         *)
(*                                                                         *)
(* Numbers.  Sizes are integers.  Funds, prices and profits are exact      *)
(* rationals <<n, d>> in lowest terms with d >= 1; <<0, 0>> stands for a   *)
(* non-finite float (NaN).  Datetimes are integers counting ticks, with    *)
(* TicksPerDay ticks in a day, so that the truncation of a holding period  *)
(* to whole days is visible.                                               *)
(***************************************************************************)
EXTENDS Integers, Sequences, FiniteSets, TLC

\* get_realized_profits: df is the set of events of the table handed to the
\* call, arg the table object itself (row order and columns included), first
\* the outcome of an earlier call on the same table; the other variables are
\* the locals of the call.
VARIABLES df, arg, first, rows, pc, syms, sym, df_sym_buy, df_sym_sell,
          realized_profits, exc

\* TransactionsHandler: the ledger self.transactions, the historical price
\* files under history_root, and the outcome of the last call of
\* get_transactions_based_on_usd (the table returned, or the error raised).
VARIABLES transactions, hist, out, err

\* _convert_transactions: the table handed to a call and the table returned
VARIABLES batch, converted
\* ConversionHandler: the attribute conversion_data, the cache file
\* <cache_root>/conversion/EUR_USD.json, and, since the last load, the number
\* of requests sent to the rate source and the rates returned per date; last
\* is the outcome of the last call
VARIABLES conversion_data, rate_file, queried, returned, last

\* CMCApiInterface: the position of a call of get_price_for_symbol, the last
\* response (its error code), the seconds slept in the running wait, whether
\* the call has waited, the cache file <cache_root>/symbols/<symbol>.json
\* and the outcome of the last call
VARIABLES api_pc, new_data, slept, waited, symbol_cache, result

\* self.transactions as it was before the last call that extended it
VARIABLES previous

rvars == <<conversion_data, rate_file, queried, returned, last>>

avars == <<api_pc, new_data, slept, waited, symbol_cache, result>>

xvars == <<rvars, avars, previous>>

cvars == <<batch, converted, xvars>>

hvars == <<transactions, hist, out, err, cvars>>

vars == <<df, arg, first, rows, pc, syms, sym, df_sym_buy, df_sym_sell,
          realized_profits, exc, hvars>>

(***************************************************************************)
(* Bounds of the model                                                     *)
(***************************************************************************)
MaxSize == 3
MaxFunds == 1
MaxEventsMulti == 2
MaxSizeMulti == 2
MaxFundsMulti == 1

TicksPerDay == 2

\* Datetimes of the single-asset ledgers with one row per instant: from 0 to
\* the last one is 366 days, from 1 to the last one 365 days and a fraction.
Times == {0, 1, 366 * TicksPerDay}
\* Datetimes of the ledgers that use every (Datetime, Side) key, and of the
\* two-asset ledgers
TimesDeep == {0, 1}
TimesMulti == {0, 1}

Sides == {"buy", "sell"}

(***************************************************************************)
(* Exact arithmetic for the float columns                                  *)
(***************************************************************************)
Abs(x) == IF x < 0 THEN -x ELSE x

Max(a, b) == IF a >= b THEN a ELSE b

RECURSIVE GCD(_, _)
GCD(a, b) == IF b = 0 THEN a ELSE GCD(b, a % b)

NaN == <<0, 0>>

IsNaN(x) == x[2] = 0

Norm(n, d) ==
    IF d = 0 THEN NaN
    ELSE LET g == GCD(Abs(n), Abs(d))
             s == IF d < 0 THEN -1 ELSE 1
         IN  <<s * (n \div g), s * (d \div g)>>

R(i) == <<i, 1>>

RAdd(x, y) == IF IsNaN(x) \/ IsNaN(y) THEN NaN
              ELSE Norm(x[1] * y[2] + y[1] * x[2], x[2] * y[2])

RNeg(x) == IF IsNaN(x) THEN NaN ELSE <<-x[1], x[2]>>

RSub(x, y) == RAdd(x, RNeg(y))

RMul(x, y) == IF IsNaN(x) \/ IsNaN(y) THEN NaN
              ELSE Norm(x[1] * y[1], x[2] * y[2])

\* float division: 0/0 is NaN; x/0 is folded into the non-finite value too
RDiv(x, y) == IF IsNaN(x) \/ IsNaN(y) \/ y[1] = 0 THEN NaN
              ELSE Norm(x[1] * y[2], x[2] * y[1])

RLt0(x) == ~IsNaN(x) /\ x[1] < 0

\* numpy.isclose(a, b) with its defaults: |a - b| <= atol + rtol * |b|,
\* atol = 1e-8, rtol = 1e-5; False when either side is NaN.  Multiplied
\* through by 1e8 * a[2] * b[2] and divided back to stay in 32 bits.
IsCloseAtolInv == 100000000
IsCloseRtolScaled == 1000

IsClose(a, b) ==
    IF IsNaN(a) \/ IsNaN(b) THEN FALSE
    ELSE LET diff == Abs(a[1] * b[2] - b[1] * a[2])
             rhs  == a[2] * b[2] + IsCloseRtolScaled * Abs(b[1]) * a[2]
         IN  diff <= rhs \div IsCloseAtolInv

RECURSIVE RSumSeq(_)
RSumSeq(s) == IF s = <<>> THEN R(0) ELSE RAdd(Head(s), RSumSeq(Tail(s)))

RECURSIVE SumSeq(_)
SumSeq(s) == IF s = <<>> THEN 0 ELSE Head(s) + SumSeq(Tail(s))

(***************************************************************************)
(* The input table: rows of the unified ledger with the pair split into    *)
(* "Symbol Buy" / "Symbol Sell" (show_portfolio), at most one row per      *)
(* (Datetime, Symbol Buy, Side).  Size > 0 and Funds <= 0 on a buy,        *)
(* Size < 0 and Funds >= 0 on a sell.                                      *)
(***************************************************************************)
sign_side(side) == IF side = "buy" THEN 1 ELSE -1

Event(dt, s, side, size, funds) ==
    [Datetime |-> dt, Symbol |-> s, Side |-> side,
     Size |-> sign_side(side) * size, Funds |-> R(-1 * sign_side(side) * funds)]

KeysOf(symbols, times) == times \X symbols \X Sides

KeySets(symbols, times, n) ==
    {ks \in SUBSET KeysOf(symbols, times) : Cardinality(ks) <= n}

\* key sets with at most one row per Datetime
OnePerInstant(symbols, times) ==
    {ks \in SUBSET KeysOf(symbols, times) :
        \A k1, k2 \in ks : k1[1] = k2[1] => k1 = k2}

Vals(maxSize, maxFunds) == (1..maxSize) \X (0..maxFunds)

LedgerOf(ks, f) == {Event(k[1], k[2], k[3], f[k][1], f[k][2]) : k \in ks}

\* Spec section 8: FIFO correctness scenario, and the end-to-end scenario
\* with sizes counted in halves (1, 1, 1.5 -> 2, 2, 3).
ExampleFIFO ==
    {Event(0, "A", "buy", 100, 1000), Event(1, "A", "buy", 50, 600),
     Event(366 * TicksPerDay, "A", "sell", 120, 1500)}

ExampleEndToEnd ==
    {Event(0, "A", "buy", 2, 10000), Event(1, "A", "buy", 2, 20000),
     Event(366 * TicksPerDay, "A", "sell", 3, 25000)}

(***************************************************************************)
(* get_realized_profits, lines 62-70: sort, Price, Total Size, index       *)
(***************************************************************************)
SideRank(side) == IF side = "buy" THEN 0 ELSE 1

SymRank(s) == IF s = "A" THEN 1 ELSE 2

\* df.sort_values(["Datetime", "Side"]): "buy" sorts before "sell"; rows
\* equal on both columns belong to different symbols.
SortKeyBefore(a, b) ==
    \/ a.Datetime < b.Datetime
    \/ /\ a.Datetime = b.Datetime
       /\ SideRank(a.Side) < SideRank(b.Side)
    \/ /\ a.Datetime = b.Datetime
       /\ a.Side = b.Side
       /\ SymRank(a.Symbol) < SymRank(b.Symbol)

sort_values(S) ==
    [i \in 1..Cardinality(S) |->
        CHOOSE x \in S : Cardinality({y \in S : SortKeyBefore(y, x)}) = i - 1]

\* df["Price"] = -df["Funds"] / df["Size"]
Price(row) == RDiv(RNeg(row.Funds), R(row.Size))

\* TotalSize as a running sum over the whole table, not per symbol
TotalSize_Ungrouped(sorted, i) == SumSeq([j \in 1..i |-> sorted[j].Size])

\* df.groupby(["Symbol Buy"])["Size"].cumsum(), over buys and sells alike
TotalSize(sorted, i) ==
    SumSeq([j \in 1..i |->
        IF sorted[j].Symbol = sorted[i].Symbol THEN sorted[j].Size ELSE 0])

PrepareRows(S) ==
    LET sorted == sort_values(S)
    IN  [i \in DOMAIN sorted |->
            [Datetime |-> sorted[i].Datetime, Symbol |-> sorted[i].Symbol,
             Side |-> sorted[i].Side, Size |-> sorted[i].Size,
             Funds |-> sorted[i].Funds, Price |-> Price(sorted[i]),
             TotalSize |-> TotalSize(sorted, i)]]

\* The table object handed to the call: the rows in ledger order (by
\* Datetime; at one Datetime, here, sells before buys), without the columns
\* the call adds.
LedgerOrderBefore(a, b) ==
    \/ a.Datetime < b.Datetime
    \/ /\ a.Datetime = b.Datetime
       /\ SideRank(a.Side) > SideRank(b.Side)
    \/ /\ a.Datetime = b.Datetime
       /\ a.Side = b.Side
       /\ SymRank(a.Symbol) < SymRank(b.Symbol)

AsFrame(S) ==
    [i \in 1..Cardinality(S) |->
        CHOOSE x \in S : Cardinality({y \in S : LedgerOrderBefore(y, x)}) = i - 1]

\* line 62 on the table object: sort_values on two columns is a stable
\* (lexicographic) sort, rows equal on both keep their order
StableBefore(frame, i, j) ==
    \/ frame[i].Datetime < frame[j].Datetime
    \/ /\ frame[i].Datetime = frame[j].Datetime
       /\ SideRank(frame[i].Side) < SideRank(frame[j].Side)
    \/ /\ frame[i].Datetime = frame[j].Datetime
       /\ frame[i].Side = frame[j].Side
       /\ i < j

sort_values_inplace(frame) ==
    [k \in DOMAIN frame |->
        frame[CHOOSE i \in DOMAIN frame :
                Cardinality({j \in DOMAIN frame : StableBefore(frame, j, i)})
                    = k - 1]]

\* InPlace writing the running sum into the Size column itself
InPlace_SizeOverwritten(frame) ==
    LET sorted == sort_values_inplace(frame)
    IN  [i \in DOMAIN sorted |->
            [Datetime |-> sorted[i].Datetime, Symbol |-> sorted[i].Symbol,
             Side |-> sorted[i].Side, Size |-> TotalSize(sorted, i),
             Funds |-> sorted[i].Funds, Price |-> Price(sorted[i]),
             TotalSize |-> TotalSize(sorted, i)]]

\* lines 62-66 act on the caller's table object: it is sorted in place and
\* gets (or gets again) the columns Price and Total Size
InPlace(frame) ==
    LET sorted == sort_values_inplace(frame)
    IN  [i \in DOMAIN sorted |->
            [Datetime |-> sorted[i].Datetime, Symbol |-> sorted[i].Symbol,
             Side |-> sorted[i].Side, Size |-> sorted[i].Size,
             Funds |-> sorted[i].Funds, Price |-> Price(sorted[i]),
             TotalSize |-> TotalSize(sorted, i)]]

\* df.index.levels[0]: the symbols of the table in sorted order
Levels0(rs) ==
    LET present == {rs[i].Symbol : i \in DOMAIN rs}
    IN  [i \in 1..Cardinality(present) |->
            CHOOSE s \in present :
                Cardinality({t \in present : SymRank(t) < SymRank(s)}) = i - 1]

\* df.loc[sym, side] on the table indexed and sorted by
\* (Symbol Buy, Side, Datetime)
Loc(rs, s, side) ==
    LET Keep(r) == r.Symbol = s /\ r.Side = side
    IN  SelectSeq(rs, Keep)

\* lines 83-89: the lot table of one symbol
NewLot(row) ==
    [Datetime |-> row.Datetime, Size |-> row.Size, Funds |-> row.Funds,
     TotalSize |-> row.TotalSize, SoldSize |-> 0, SoldValue |-> R(0),
     Profits |-> R(0), HeldDays |-> 0, ToBeTaxed |-> FALSE]

\* InitLots taking over the lot table a call before has left
InitLots_Stale(rs, s) ==
    LET buys == Loc(rs, s, "buy")
    IN  IF Len(df_sym_buy) = Len(buys) THEN df_sym_buy
        ELSE [i \in DOMAIN buys |-> NewLot(buys[i])]

InitLots(rs, s) ==
    LET buys == Loc(rs, s, "buy")
    IN  [i \in DOMAIN buys |-> NewLot(buys[i])]

(***************************************************************************)
(* get_realized_profits, lines 95-154: one iteration of the sell loop      *)
(***************************************************************************)
HoldingThreshold == 365

\* pandas Series.sum(): NaN entries are skipped
sum_skipna(s) ==
    RSumSeq([i \in DOMAIN s |-> IF IsNaN(s[i]) THEN R(0) ELSE s[i]])

\* first_dt falling back to the last label when no entry is True
first_dt_LastOnMiss(lots, S) ==
    LET hit == {i \in DOMAIN lots : lots[i].TotalSize + S >= 0}
    IN  IF hit = {} THEN Len(lots)
        ELSE CHOOSE i \in hit : \A j \in hit : i <= j

\* line 98: idxmax of a boolean column is the first True, and the first
\* label when no entry is True
first_dt(lots, S) ==
    LET hit == {i \in DOMAIN lots : lots[i].TotalSize + S >= 0}
    IN  IF hit = {} THEN 1
        ELSE CHOOSE i \in hit : \A j \in hit : i <= j

\* ReducePast with a strict comparison: a buy at the sell's own timestamp
\* is not a past buy
ReducePast_Strict(lots, dt, S) ==
    [i \in DOMAIN lots |->
        IF lots[i].Datetime < dt
        THEN [lots[i] EXCEPT !.TotalSize = Max(0, @ + S)]
        ELSE lots[i]]

\* lines 96, 100-102
ReducePast(lots, dt, S) ==
    [i \in DOMAIN lots |->
        IF lots[i].Datetime <= dt
        THEN [lots[i] EXCEPT !.TotalSize = Max(0, @ + S)]
        ELSE lots[i]]

\* size_ratio without the complement: the share left instead of the share sold
size_ratio_Left(lot) == RDiv(R(lot.TotalSize), R(lot.Size))

\* line 104
size_ratio(lot) == RSub(R(1), RDiv(R(lot.TotalSize), R(lot.Size)))

\* line 106
funds_share(lot) == RMul(size_ratio(lot), lot.Funds)

\* line 108
funds_paid(lots, f) ==
    RAdd(funds_share(lots[f]),
         sum_skipna([i \in 1..(f - 1) |-> lots[i].Funds]))

\* HeldDays rounding a started day up instead of truncating
HeldDays_RoundUp(dt, lot) ==
    (dt - lot.Datetime + TicksPerDay - 1) \div TicksPerDay

\* lines 124-130: timedelta.days, the floor of the difference in days
HeldDays(dt, lot) == (dt - lot.Datetime) \div TicksPerDay

\* UpdateLots without line 138: the funds of the fully consumed lots stay
UpdateLots_KeepFunds(lots, f, dt, price) ==
    LET share == funds_share(lots[f])
    IN  [i \in DOMAIN lots |->
            IF i > f THEN lots[i]
            ELSE LET sold  == lots[i].Size - lots[i].TotalSize
                     value == RMul(R(sold), price)
                     held  == HeldDays(dt, lots[i])
                 IN  [Datetime  |-> lots[i].Datetime,
                      Size      |-> lots[i].Size - sold,
                      Funds     |-> IF i < f THEN lots[i].Funds
                                    ELSE RSub(lots[i].Funds, share),
                      TotalSize |-> lots[i].TotalSize,
                      SoldSize  |-> sold,
                      SoldValue |-> value,
                      Profits   |-> IF i < f THEN RAdd(value, lots[i].Funds)
                                    ELSE RAdd(value, share),
                      HeldDays  |-> held,
                      ToBeTaxed |-> held <= HoldingThreshold]]

\* lines 110-132 and 138-140, applied to the table after ReducePast
UpdateLots(lots, f, dt, price) ==
    LET share == funds_share(lots[f])
    IN  [i \in DOMAIN lots |->
            IF i > f THEN lots[i]
            ELSE LET sold  == lots[i].Size - lots[i].TotalSize
                     value == RMul(R(sold), price)
                     held  == HeldDays(dt, lots[i])
                 IN  [Datetime  |-> lots[i].Datetime,
                      Size      |-> lots[i].Size - sold,
                      Funds     |-> IF i < f THEN R(0)
                                    ELSE RSub(lots[i].Funds, share),
                      TotalSize |-> lots[i].TotalSize,
                      SoldSize  |-> sold,
                      SoldValue |-> value,
                      Profits   |-> IF i < f THEN RAdd(value, lots[i].Funds)
                                    ELSE RAdd(value, share),
                      HeldDays  |-> held,
                      ToBeTaxed |-> held <= HoldingThreshold]]

\* profits_to_be_taxed without the clause that always includes losses
profits_to_be_taxed_FlaggedOnly(lots) ==
    sum_skipna([i \in DOMAIN lots |->
        IF lots[i].ToBeTaxed THEN lots[i].Profits ELSE R(0)])

\* line 135
profits_to_be_taxed(lots) ==
    sum_skipna([i \in DOMAIN lots |->
        IF lots[i].ToBeTaxed \/ RLt0(lots[i].Profits)
        THEN lots[i].Profits ELSE R(0)])

\* line 144
Conserved(paid, received, lots) ==
    IsClose(RAdd(paid, received),
            sum_skipna([i \in DOMAIN lots |-> lots[i].Profits]))

\* row_new with Profit/Loss computed as received - paid
row_new_Difference(dt, s, paid, received, taxed) ==
    [Datetime |-> dt, Symbol |-> s, FundsPaid |-> paid,
     FundsReceived |-> received, ProfitLoss |-> RSub(received, paid),
     ToBeTaxed |-> taxed]

\* lines 146-153
row_new(dt, s, paid, received, taxed) ==
    [Datetime |-> dt, Symbol |-> s, FundsPaid |-> paid,
     FundsReceived |-> received, ProfitLoss |-> RAdd(paid, received),
     ToBeTaxed |-> taxed]

\* the whole loop body for one sell row
SellStep(lots, row, s) ==
    LET f       == first_dt(lots, row.Size)
        reduced == ReducePast(lots, row.Datetime, row.Size)
        paid    == funds_paid(reduced, f)
        after   == UpdateLots(reduced, f, row.Datetime, row.Price)
    IN  [first |-> f, lots |-> after, paid |-> paid,
         ok |-> Conserved(paid, row.Funds, after),
         rec |-> row_new(row.Datetime, s, paid, row.Funds,
                         profits_to_be_taxed(after))]

(***************************************************************************)
(* get_realized_profits as a function of the table: the result of the      *)
(* whole pass, [raised |-> an exception left the call, recs |-> the list   *)
(* realized_profits at that point]                                         *)
(***************************************************************************)
RECURSIVE RunSells(_, _, _, _)
RunSells(lots, sells, s, recs) ==
    IF sells = <<>> THEN [raised |-> FALSE, recs |-> recs]
    ELSE LET r == SellStep(lots, Head(sells), s)
         IN  IF r.ok
             THEN RunSells(r.lots, Tail(sells), s, Append(recs, r.rec))
             ELSE [raised |-> TRUE, recs |-> recs]

RECURSIVE RunSymbols(_, _, _)
RunSymbols(rs, ss, recs) ==
    IF ss = <<>> THEN [raised |-> FALSE, recs |-> recs]
    ELSE IF Loc(rs, Head(ss), "sell") = <<>>
         THEN RunSymbols(rs, Tail(ss), recs)
         ELSE IF Loc(rs, Head(ss), "buy") = <<>>
              THEN [raised |-> TRUE, recs |-> recs]
              ELSE LET r == RunSells(InitLots(rs, Head(ss)),
                                     Loc(rs, Head(ss), "sell"), Head(ss), recs)
                   IN  IF r.raised THEN r
                       ELSE RunSymbols(rs, Tail(ss), r.recs)

get_realized_profits(S) ==
    RunSymbols(PrepareRows(S), Levels0(PrepareRows(S)), <<>>)

(***************************************************************************)
(* TransactionsHandler.  A row of the ledger has the columns Datetime,     *)
(* Pair (<<bought asset, counter asset>>, the two sides of "X-Y"), Side,   *)
(* Size, Funds, Fee (floats), Fee currency and Broker.  The day of a row   *)
(* is the first ten characters of its Datetime.                            *)
(***************************************************************************)
MaxRows == 2

Day(dt) == dt \div TicksPerDay

\* one instant in day 0 and one in day 1
LedgerTimes == {1, TicksPerDay}

\* (bought asset, counter asset, |Funds|, Fee, Fee currency) of the events
\* added: a pair against USD, against EUR and against the asset C (a swap),
\* the fee in USD, in EUR, in the counter asset or in a third asset F, and a
\* swap for no funds
Traded ==
    {<<"A", "USD", 3, 2, "USD">>, <<"A", "USD", 3, 2, "EUR">>,
     <<"A", "USD", 3, 2, "C">>, <<"A", "EUR", 3, 2, "EUR">>,
     <<"A", "C", 3, 2, "USD">>, <<"A", "C", 3, 2, "C">>,
     <<"A", "C", 3, 2, "F">>, <<"A", "C", 0, 2, "C">>}

Trades == LedgerTimes \X Sides \X Traded

\* the signs the caller gives to Size and to Funds
SuppliedSigns == {-1, 1} \X {-1, 1}

\* the dict of a trade as the caller writes it
Dict(trade, signs) ==
    [Datetime |-> trade[1], Pair |-> <<trade[3][1], trade[3][2]>>,
     Side |-> trade[2], Size |-> signs[1] * 1,
     Funds |-> signs[2] * trade[3][3], Fee |-> trade[3][4],
     FeeCurrency |-> trade[3][5], Broker |-> "Manual"]

\* lines 58-65: the signs of Size and Funds follow from Side
prepare_dataframe_from_dict_list(d_l) ==
    [i \in DOMAIN d_l |->
        [Datetime |-> d_l[i].Datetime, Pair |-> d_l[i].Pair,
         Side |-> d_l[i].Side,
         Size |-> sign_side(d_l[i].Side) * Abs(d_l[i].Size),
         Funds |-> -1 * sign_side(d_l[i].Side) * Abs(d_l[i].Funds),
         Fee |-> d_l[i].Fee, FeeCurrency |-> d_l[i].FeeCurrency,
         Broker |-> d_l[i].Broker]]

\* lines 122-126: the numeric columns become floats
sanitize_df(df_) ==
    [i \in DOMAIN df_ |->
        [df_[i] EXCEPT !.Size = R(@), !.Funds = R(@), !.Fee = R(@)]]

\* ConversionHandler.get_conversion_rate: the EUR -> USD rate of a day
get_conversion_rate(day) == Norm(11 + day, 10)

\* str.contains("EUR") / str.replace("EUR", "USD") on a pair and on a symbol
ContainsEUR(pair) == pair[1] = "EUR" \/ pair[2] = "EUR"

ReplaceEUR(s) == IF s = "EUR" THEN "USD" ELSE s

\* line 105: the column Conversion is set on the rows whose Pair contains
\* EUR and is NaN on the other rows
Conversion(row) ==
    IF ContainsEUR(row.Pair) THEN get_conversion_rate(Day(row.Datetime))
    ELSE NaN

\* lines 94-120
convert_transactions(df_) ==
    IF ~\E i \in DOMAIN df_ : ContainsEUR(df_[i].Pair) THEN df_
    ELSE [i \in DOMAIN df_ |->
            [df_[i] EXCEPT
                !.Funds = IF ContainsEUR(df_[i].Pair)
                          THEN RMul(@, Conversion(df_[i])) ELSE @,
                !.Fee = IF df_[i].FeeCurrency = "EUR"
                        THEN RMul(@, Conversion(df_[i])) ELSE @,
                !.Pair = <<ReplaceEUR(@[1]), ReplaceEUR(@[2])>>,
                !.FeeCurrency = ReplaceEUR(@)]]

\* utils.update_df
update_df(df_, df_update) ==
    IF df_update # <<>>
    THEN IF df_ = <<>> THEN df_update ELSE df_ \o df_update
    ELSE df_

\* sort_values(by=["Datetime"]) sorts one column with the default kind
\* "quicksort", which is not stable: the rows end up in Datetime order, the
\* order of rows of equal Datetime is not determined.  The set of the
\* possible results, as index sequences.
RECURSIVE DatetimeOrders(_, _)
DatetimeOrders(s, I) ==
    IF I = {} THEN {<<>>}
    ELSE LET least == {i \in I : \A j \in I : s[i].Datetime <= s[j].Datetime}
         IN  UNION {{<<i>> \o rest : rest \in DatetimeOrders(s, I \ {i})} :
                        i \in least}

sort_values_Datetime(s) ==
    {[k \in DOMAIN p |-> s[p[k]]] : p \in DatetimeOrders(s, DOMAIN s)}

Key(row) == <<row.Datetime, row.Pair, row.Side>>

\* drop_duplicates keeping the last row of each key
drop_duplicates_KeepLast(s) ==
    LET keep == {i \in DOMAIN s :
                    ~\E j \in DOMAIN s : j > i /\ Key(s[j]) = Key(s[i])}
    IN  [k \in 1..Cardinality(keep) |->
            s[CHOOSE i \in keep : Cardinality({j \in keep : j < i}) = k - 1]]

\* drop_duplicates(subset=["Datetime", "Pair", "Side"]): the first row of
\* each key stays
drop_duplicates(s) ==
    LET keep == {i \in DOMAIN s :
                    ~\E j \in DOMAIN s : j < i /\ Key(s[j]) = Key(s[i])}
    IN  [k \in 1..Cardinality(keep) |->
            s[CHOOSE i \in keep : Cardinality({j \in keep : j < i}) = k - 1]]

\* extend_transactions_dataframe without line 39
extend_transactions_dataframe_NoDedup(T, df_) ==
    sort_values_Datetime(update_df(T, df_))

\* lines 33-40: the possible values of self.transactions after the call
extend_transactions_dataframe(T, df_) ==
    {drop_duplicates(s) : s \in sort_values_Datetime(update_df(T, df_))}

\* lines 69-73: the possible ledgers after add_transactions_manually
add_transactions_manually(T, transaction_dict) ==
    extend_transactions_dataframe(T,
        convert_transactions(
            sanitize_df(prepare_dataframe_from_dict_list(transaction_dict))))

(***************************************************************************)
(* The historical price files: h[sym] is the set of the days that have a   *)
(* row in <history_root>/<sym>.csv; a symbol outside DOMAIN h has no file. *)
(***************************************************************************)
Days == {Day(dt) : dt \in LedgerTimes}

HistSyms == {"C", "F"}

\* every file has a row for day 0; the row of day 1 can be missing
HistChoices == [HistSyms -> {Days, {0}}]

\* the columns open and close of the row of a symbol and a day
Open(s, day) == (IF s = "C" THEN 1 ELSE 3) + day

Close(s, day) == Open(s, day) + 1

\* lines 151-159: the symbols whose file is read
HistNeeded(T) ==
    {T[i].Pair[2] : i \in {j \in DOMAIN T : T[j].Pair[2] # "USD"}}
        \cup {T[i].FeeCurrency :
                i \in {j \in DOMAIN T : T[j].FeeCurrency # "USD"}}

\* lines 188, 193, 196, 197: the left merge on (day, sym) and the mid of
\* open and close; no matching row leaves NaN
price_USD(T, h, s, day) ==
    IF s \in HistNeeded(T) /\ s \in DOMAIN h /\ day \in h[s]
    THEN RDiv(R(Open(s, day) + Close(s, day)), R(2))
    ELSE NaN

OtherSide(side) == IF side = "buy" THEN "sell" ELSE "buy"

\* swaps_add keeping the Side of the swap row
swaps_add_KeepsSide(T, h, row) ==
    [Datetime |-> row.Datetime,
     Pair |-> <<row.Pair[2], "USD">>,
     Side |-> row.Side,
     Size |-> row.Funds,
     Funds |-> RMul(RNeg(price_USD(T, h, row.Pair[2], Day(row.Datetime))),
                    row.Funds),
     Fee |-> RMul(price_USD(T, h, row.FeeCurrency, Day(row.Datetime)),
                  row.Fee),
     FeeCurrency |-> "USD",
     Broker |-> row.Broker]

\* lines 183-203: the additional row of a swap row
swaps_add(T, h, row) ==
    [Datetime |-> row.Datetime,
     Pair |-> <<row.Pair[2], "USD">>,
     Side |-> OtherSide(row.Side),
     Size |-> row.Funds,
     Funds |-> RMul(RNeg(price_USD(T, h, row.Pair[2], Day(row.Datetime))),
                    row.Funds),
     Fee |-> RMul(price_USD(T, h, row.FeeCurrency, Day(row.Datetime)),
                  row.Fee),
     FeeCurrency |-> "USD",
     Broker |-> row.Broker]

\* lines 214-217: the swap row itself
swaps_org(T, h, row) ==
    [row EXCEPT !.Pair = <<row.Pair[1], "USD">>,
                !.Funds = RNeg(swaps_add(T, h, row).Funds),
                !.Fee = R(0),
                !.FeeCurrency = "USD"]

IsUSD(row) == row.Pair[2] = "USD"

IsSwap(row) == row.Pair[2] # "USD"

\* lines 177-178
AllUSD(T) ==
    /\ \A i \in DOMAIN T : T[i].Pair[2] = "USD"
    /\ \A i \in DOMAIN T : T[i].FeeCurrency = "USD"

\* sort_values("Datetime") of line 225 leaves the order of the rows of one
\* Datetime open; the table is given with these rows in the order of the
\* concatenation of line 219.
StableByDatetime(s) ==
    [k \in DOMAIN s |->
        s[CHOOSE i \in DOMAIN s :
            Cardinality({j \in DOMAIN s :
                \/ s[j].Datetime < s[i].Datetime
                \/ s[j].Datetime = s[i].Datetime /\ j < i}) = k - 1]]

\* get_transactions_based_on_usd without the early return of lines 177-179
get_transactions_based_on_usd_NoEarlyReturn(T, h) ==
    IF HistNeeded(T) = {} THEN [err |-> "KeyError", rows |-> <<>>]
    ELSE IF ~(HistNeeded(T) \subseteq DOMAIN h)
    THEN [err |-> "FileNotFoundError", rows |-> <<>>]
    ELSE LET swaps == SelectSeq(T, IsSwap)
             org   == [i \in DOMAIN swaps |-> swaps_org(T, h, swaps[i])]
             add   == [i \in DOMAIN swaps |-> swaps_add(T, h, swaps[i])]
         IN  [err |-> "",
              rows |-> StableByDatetime(org \o add \o SelectSeq(T, IsUSD))]

\* lines 168-229: [err |-> the exception raised ("" when none),
\* rows |-> the table returned]
get_transactions_based_on_usd(T, h) ==
    IF AllUSD(T) THEN [err |-> "", rows |-> T]
    ELSE IF ~(HistNeeded(T) \subseteq DOMAIN h)
    THEN [err |-> "FileNotFoundError", rows |-> <<>>]
    ELSE LET swaps == SelectSeq(T, IsSwap)
             org   == [i \in DOMAIN swaps |-> swaps_org(T, h, swaps[i])]
             add   == [i \in DOMAIN swaps |-> swaps_add(T, h, swaps[i])]
         IN  [err |-> "",
              rows |-> StableByDatetime(org \o add \o SelectSeq(T, IsUSD))]

(***************************************************************************)
(* ConversionHandler.  A dict is a function from dates (the days) to       *)
(* rates.  The cache file holds JSON: the text null, or an object with one *)
(* member per date whose value is the repr of the float.                   *)
(***************************************************************************)
Dates == Days

\* what the rate source answers for a date; it need not answer twice alike
Quotes == {Norm(11, 10), Norm(12, 10)}

EmptyDict == [d \in {} |-> NaN]

\* repr of a float and its parse, for floats with one decimal: the digits
\* of the float in tenths
float_repr(x) == (x[1] * 10) \div x[2]

float_parse(digits) == Norm(digits, 10)

\* json.dump / json.load of conversion_data
json_dump(data) ==
    IF data.is_none THEN [null |-> TRUE, members |-> {}]
    ELSE [null |-> FALSE,
          members |-> {<<d, float_repr(data.items[d])>> :
                            d \in DOMAIN data.items}]

json_load(text) ==
    IF text.null THEN [is_none |-> TRUE, items |-> EmptyDict]
    ELSE [is_none |-> FALSE,
          items |-> [d \in {m[1] : m \in text.members} |->
                        float_parse((CHOOSE m \in text.members : m[1] = d)[2])]]

NoFile == [exists |-> FALSE, text |-> [null |-> TRUE, members |-> {}]]

FileOf(data) == [exists |-> TRUE, text |-> json_dump(data)]

NoCall == [op |-> "init", date |-> 0, rate |-> NaN, raised |-> FALSE]

(***************************************************************************)
(* CMCApiInterface.  A response is its status.error_code; the cache file   *)
(* holds the response written last and whether its timestamp is of today.  *)
(***************************************************************************)
RateLimited == 1008

WaitSeconds == 60

\* success, an error that is no rate limit (invalid API key), rate limit
ErrorCodes == {0, 1001, RateLimited}

NoData == [exists |-> FALSE, code |-> 0, today |-> FALSE]

NoPrice == [from |-> "none", code |-> 0, raised |-> FALSE]

\* no call of get_price_for_symbol yet, empty cache directory
ApiIdle ==
    /\ api_pc = "idle"
    /\ new_data = 0
    /\ slept = 0
    /\ waited = FALSE
    /\ symbol_cache = NoData
    /\ result = NoPrice

\* __init__, lines 9-14: conversion_data is None
NoCollaborator ==
    /\ conversion_data = [is_none |-> TRUE, items |-> EmptyDict]
    /\ rate_file = NoFile
    /\ queried = [d \in Dates |-> 0]
    /\ returned = [d \in Dates |-> {}]
    /\ last = NoCall
    /\ previous = <<>>
    /\ ApiIdle

(***************************************************************************)
(* Initial states: the table handed to get_realized_profits                *)
(***************************************************************************)
NoResult == [called |-> FALSE, raised |-> FALSE, recs |-> <<>>]

\* show_portfolio, lines 162-187: the table handed to the call is a copy of
\* the table returned by get_transactions_based_on_usd, with the pair split
\* into its two symbols; here the ledger is unified already and has no fees
LedgerRowOf(e) ==
    [Datetime |-> e.Datetime, Pair |-> <<e.Symbol, "USD">>, Side |-> e.Side,
     Size |-> R(e.Size), Funds |-> e.Funds, Fee |-> R(0),
     FeeCurrency |-> "USD", Broker |-> "Manual"]

FullHist == [s \in HistSyms |-> Days]

Blank ==
    /\ arg = AsFrame(df)
    /\ first = NoResult
    /\ rows = <<>>
    /\ pc = "start"
    /\ syms = <<>>
    /\ sym = ""
    /\ df_sym_buy = <<>>
    /\ df_sym_sell = <<>>
    /\ realized_profits = <<>>
    /\ exc = ""
    /\ transactions = [i \in DOMAIN AsFrame(df) |-> LedgerRowOf(AsFrame(df)[i])]
    /\ hist = FullHist
    /\ out = transactions
    /\ err = "NoError"
    /\ batch = <<>>
    /\ converted = <<>>
    /\ NoCollaborator

\* one asset: every ledger over Times with at most one row per instant,
\* every ledger over TimesDeep, and the two scenarios of the specification
Init ==
    /\ \/ \E ks \in OnePerInstant({"A"}, Times) :
            \E f \in [ks -> Vals(MaxSize, MaxFunds)] : df = LedgerOf(ks, f)
       \/ \E ks \in SUBSET KeysOf({"A"}, TimesDeep) :
            \E f \in [ks -> Vals(MaxSize, MaxFunds)] : df = LedgerOf(ks, f)
       \/ df \in {ExampleFIFO, ExampleEndToEnd}
    /\ Blank

\* two assets: every ledger of A of at most MaxEventsMulti rows over
\* TimesMulti, next to a buy and/or a sell of one unit of B at time 0, for
\* funds of 0 or 1
InitMulti ==
    /\ \E ka \in KeySets({"A"}, TimesMulti, MaxEventsMulti) :
       \E kb \in SUBSET KeysOf({"B"}, {0}) :
       \E fa \in [ka -> Vals(MaxSizeMulti, MaxFundsMulti)] :
       \E fb \in [kb -> Vals(1, 1)] :
            df = LedgerOf(ka, fa) \cup LedgerOf(kb, fb)
    /\ Blank

(***************************************************************************)
(* Actions                                                                 *)
(***************************************************************************)
\* lines 62-72
Prepare ==
    /\ pc = "start"
    /\ arg' = InPlace(arg)
    /\ rows' = InPlace(arg)
    /\ syms' = Levels0(InPlace(arg))
    /\ pc' = "loop"
    /\ realized_profits' = <<>>
    /\ UNCHANGED <<df, sym, df_sym_buy, df_sym_sell, exc>>
    /\ UNCHANGED <<first, hvars>>

\* lines 74-79: df.loc[sym, "sell"] raises, the symbol is skipped
SkipNoSell ==
    /\ pc = "loop"
    /\ syms # <<>>
    /\ Loc(rows, Head(syms), "sell") = <<>>
    /\ syms' = Tail(syms)
    /\ UNCHANGED <<df, rows, pc, sym, df_sym_buy, df_sym_sell,
                   realized_profits, exc>>
    /\ UNCHANGED <<arg, first, hvars>>

\* line 83: df.loc[sym, "buy"] raises KeyError outside any try block
RaiseNoBuy ==
    /\ pc = "loop"
    /\ syms # <<>>
    /\ Loc(rows, Head(syms), "sell") # <<>>
    /\ Loc(rows, Head(syms), "buy") = <<>>
    /\ pc' = "raised"
    /\ exc' = "KeyError"
    /\ sym' = Head(syms)
    /\ UNCHANGED <<df, rows, syms, df_sym_buy, df_sym_sell, realized_profits>>
    /\ UNCHANGED <<arg, first, hvars>>

\* lines 74-89
EnterSymbol ==
    /\ pc = "loop"
    /\ syms # <<>>
    /\ Loc(rows, Head(syms), "sell") # <<>>
    /\ Loc(rows, Head(syms), "buy") # <<>>
    /\ sym' = Head(syms)
    /\ syms' = Tail(syms)
    /\ df_sym_sell' = Loc(rows, Head(syms), "sell")
    /\ df_sym_buy' = InitLots(rows, Head(syms))
    /\ pc' = "sells"
    /\ UNCHANGED <<df, rows, realized_profits, exc>>
    /\ UNCHANGED <<arg, first, hvars>>

\* lines 90-154: one sell row; the assertion of line 144 either passes and
\* the record is appended, or raises AssertionError
ProcessSell ==
    /\ pc = "sells"
    /\ df_sym_sell # <<>>
    /\ LET r == SellStep(df_sym_buy, Head(df_sym_sell), sym)
       IN  /\ df_sym_buy' = r.lots
           /\ IF r.ok
              THEN /\ realized_profits' = Append(realized_profits, r.rec)
                   /\ df_sym_sell' = Tail(df_sym_sell)
                   /\ UNCHANGED <<pc, exc>>
              ELSE /\ pc' = "raised"
                   /\ exc' = "AssertionError"
                   /\ UNCHANGED <<realized_profits, df_sym_sell>>
    /\ UNCHANGED <<df, rows, syms, sym>>
    /\ UNCHANGED <<arg, first, hvars>>

\* line 90: the sell rows of the symbol are exhausted
EndSymbol ==
    /\ pc = "sells"
    /\ df_sym_sell = <<>>
    /\ pc' = "loop"
    /\ UNCHANGED <<df, rows, syms, sym, df_sym_buy, df_sym_sell,
                   realized_profits, exc>>
    /\ UNCHANGED <<arg, first, hvars>>

\* line 156
Return ==
    /\ pc = "loop"
    /\ syms = <<>>
    /\ pc' = "done"
    /\ UNCHANGED <<df, rows, syms, sym, df_sym_buy, df_sym_sell,
                   realized_profits, exc>>
    /\ UNCHANGED <<arg, first, hvars>>

Next ==
    \/ Prepare
    \/ SkipNoSell
    \/ RaiseNoBuy
    \/ EnterSymbol
    \/ ProcessSell
    \/ EndSymbol
    \/ Return

Spec == Init /\ [][Next]_vars

SpecMulti == InitMulti /\ [][Next]_vars

(***************************************************************************)
(* A second call of get_realized_profits on the table object of the first  *)
(***************************************************************************)
\* one asset, every ledger over TimesDeep
InitReplay ==
    /\ \E ks \in SUBSET KeysOf({"A"}, TimesDeep) :
       \E f \in [ks -> Vals(MaxSizeMulti, MaxFundsMulti)] :
            df = LedgerOf(ks, f)
    /\ Blank

\* the caller keeps the outcome of the first call and calls again with the
\* same table object; the locals of the first call are left as they were
CallAgain ==
    /\ pc \in {"done", "raised"}
    /\ ~first.called
    /\ first' = [called |-> TRUE, raised |-> pc = "raised",
                 recs |-> realized_profits]
    /\ pc' = "start"
    /\ exc' = ""
    /\ UNCHANGED <<df, arg, rows, syms, sym, df_sym_buy, df_sym_sell,
                   realized_profits, hvars>>

NextReplay == Next \/ CallAgain

SpecReplay == InitReplay /\ [][NextReplay]_vars

(***************************************************************************)
(* The pass on a table in which the Funds of some events is NaN            *)
(***************************************************************************)
\* the ledger with the Funds of the events of the keys in nan undefined
WithNaN(ks, f, nan) ==
    {IF k \in nan
     THEN [Event(k[1], k[2], k[3], f[k][1], f[k][2]) EXCEPT !.Funds = NaN]
     ELSE Event(k[1], k[2], k[3], f[k][1], f[k][2]) : k \in ks}

\* one asset, one row per instant over Times
InitNaN ==
    /\ \E ks \in OnePerInstant({"A"}, Times) :
       \E f \in [ks -> Vals(MaxSizeMulti, MaxFundsMulti)] :
       \E nan \in SUBSET ks :
            df = WithNaN(ks, f, nan)
    /\ Blank

SpecNaN == InitNaN /\ [][Next]_vars

(***************************************************************************)
(* The handler: calls of add_transactions_manually and of                  *)
(* get_transactions_based_on_usd in any order, the ledger holding at most  *)
(* MaxRows rows.  err is "NoCall" before the first call of                 *)
(* get_transactions_based_on_usd, then "NoError" or the exception raised.  *)
(***************************************************************************)
InitHandler ==
    /\ transactions = <<>>
    /\ hist = FullHist
    /\ out = <<>>
    /\ err = "NoCall"
    /\ batch = <<>>
    /\ converted = <<>>
    /\ NoCollaborator
    /\ df = {}
    /\ arg = <<>>
    /\ first = NoResult
    /\ rows = <<>>
    /\ pc = "start"
    /\ syms = <<>>
    /\ sym = ""
    /\ df_sym_buy = <<>>
    /\ df_sym_sell = <<>>
    /\ realized_profits = <<>>
    /\ exc = ""

pvars == <<df, arg, first, rows, pc, syms, sym, df_sym_buy, df_sym_sell,
           realized_profits, exc>>

\* lines 69-73, called with one dict or with a list of two dicts; the
\* ledger is filled before the unified table is asked for
AddTransactionsManually ==
    /\ err = "NoCall"
    /\ \E signs \in SuppliedSigns :
        \/ /\ Len(transactions) + 1 <= MaxRows
           /\ \E t1 \in Trades :
                transactions' \in
                    add_transactions_manually(transactions,
                                              <<Dict(t1, signs)>>)
        \/ /\ Len(transactions) + 2 <= MaxRows
           /\ \E t1, t2 \in Trades :
                transactions' \in
                    add_transactions_manually(transactions,
                        <<Dict(t1, signs), Dict(t2, signs)>>)
    /\ UNCHANGED <<hist, out, err, cvars, pvars>>

\* lines 168-229, with the price files found on disk at the call
GetTransactionsBasedOnUsd ==
    /\ \E h \in HistChoices :
        LET r == get_transactions_based_on_usd(transactions, h)
        IN  /\ hist' = h
            /\ out' = r.rows
            /\ err' = IF r.err = "" THEN "NoError" ELSE r.err
    /\ UNCHANGED <<transactions, cvars, pvars>>

NextHandler == AddTransactionsManually \/ GetTransactionsBasedOnUsd

SpecHandler == InitHandler /\ [][NextHandler]_vars

(***************************************************************************)
(* _convert_transactions on the table of one call of                       *)
(* add_transactions_manually (one dict or two), as _sanitize_df leaves it  *)
(***************************************************************************)
InitConvert ==
    /\ \E signs \in SuppliedSigns :
        \/ \E t1 \in Trades :
            batch = sanitize_df(
                prepare_dataframe_from_dict_list(<<Dict(t1, signs)>>))
        \/ \E t1, t2 \in Trades :
            batch = sanitize_df(
                prepare_dataframe_from_dict_list(
                    <<Dict(t1, signs), Dict(t2, signs)>>))
    /\ converted = <<>>
    /\ NoCollaborator
    /\ transactions = <<>>
    /\ hist = FullHist
    /\ out = <<>>
    /\ err = "NoCall"
    /\ df = {}
    /\ arg = <<>>
    /\ first = NoResult
    /\ rows = <<>>
    /\ pc = "start"
    /\ syms = <<>>
    /\ sym = ""
    /\ df_sym_buy = <<>>
    /\ df_sym_sell = <<>>
    /\ realized_profits = <<>>
    /\ exc = ""

\* lines 94-120
ConvertTransactions ==
    /\ converted = <<>>
    /\ converted' = convert_transactions(batch)
    /\ UNCHANGED <<batch, transactions, hist, out, err, pvars, xvars>>

NextConvert == ConvertTransactions

SpecConvert == InitConvert /\ [][NextConvert]_vars

(***************************************************************************)
(* add_transactions_manually on dicts as a caller may write them: Size     *)
(* and Funds are floats, finite or not (NaN stands for every non-finite    *)
(* float), and Datetime is any string.  A string that is no                *)
(* 'YYYY-MM-DD HH:MM:SS' timestamp, such as "01.02.2021 10:00:00", is a    *)
(* negative tick: it sorts before the timestamps, and its first ten        *)
(* characters are no date.                                                 *)
(***************************************************************************)
Unparsed == {-1}

FloatValues(magnitude) == {R(magnitude), RNeg(R(magnitude)), NaN}

FloatDicts ==
    {[Datetime |-> dt, Pair |-> <<"A", counter>>, Side |-> side,
      Size |-> size, Funds |-> funds, Fee |-> R(2),
      FeeCurrency |-> "USD", Broker |-> "Manual"] :
        dt \in LedgerTimes \cup Unparsed, counter \in {"USD", "EUR"},
        side \in Sides, size \in FloatValues(1), funds \in FloatValues(3)}

\* abs() of a float: abs(nan) is nan
RAbs(x) == IF IsNaN(x) THEN NaN ELSE <<Abs(x[1]), x[2]>>

\* lines 58-65 on float columns: sign * abs(x), and nan stays nan
prepare_dataframe_from_float_dicts(d_l) ==
    [i \in DOMAIN d_l |->
        [d_l[i] EXCEPT
            !.Size = RMul(R(sign_side(d_l[i].Side)), RAbs(@)),
            !.Funds = RMul(R(-1 * sign_side(d_l[i].Side)), RAbs(@))]]

\* lines 122-126 on float columns: astype(float) takes every float, NaN
\* included, and astype(object) takes every string
sanitize_float_df(df_) ==
    [i \in DOMAIN df_ |->
        [Datetime |-> df_[i].Datetime, Pair |-> df_[i].Pair,
         Side |-> df_[i].Side, Size |-> df_[i].Size,
         Funds |-> df_[i].Funds, Fee |-> df_[i].Fee,
         FeeCurrency |-> df_[i].FeeCurrency, Broker |-> df_[i].Broker]]

\* lines 105-111 with conversion_handler.py line 23: the rate of a row whose
\* Pair contains EUR is looked up by the first ten characters of Datetime,
\* and strptime raises ValueError when they are no date
convert_transactions_raises(df_) ==
    \E i \in DOMAIN df_ :
        ContainsEUR(df_[i].Pair) /\ df_[i].Datetime \in Unparsed

InitIngest == InitHandler

\* lines 69-73, called with one dict; err is the outcome of the call
AddTransactionsManuallyFloats ==
    /\ Len(transactions) + 1 <= MaxRows
    /\ \E d \in FloatDicts :
        LET df_ == sanitize_float_df(
                       prepare_dataframe_from_float_dicts(<<d>>))
        IN  IF convert_transactions_raises(df_)
            THEN /\ err' = "ValueError"
                 /\ UNCHANGED transactions
            ELSE /\ err' = "NoError"
                 /\ transactions' \in
                        extend_transactions_dataframe(transactions,
                            convert_transactions(df_))
    /\ UNCHANGED <<hist, out, cvars, pvars>>

NextIngest == AddTransactionsManuallyFloats

SpecIngest == InitIngest /\ [][NextIngest]_vars

(***************************************************************************)
(* ConversionHandler: load_conversion_dict, get_conversion_rate and        *)
(* save_conversion_dict for EUR -> USD, called in any order, on a cache    *)
(* directory that is empty at first.                                       *)
(***************************************************************************)
InitRates ==
    /\ conversion_data = [is_none |-> TRUE, items |-> EmptyDict]
    /\ rate_file = NoFile
    /\ queried = [d \in Dates |-> 0]
    /\ returned = [d \in Dates |-> {}]
    /\ last = NoCall
    /\ previous = <<>>
    /\ ApiIdle
    /\ batch = <<>>
    /\ converted = <<>>
    /\ transactions = <<>>
    /\ hist = FullHist
    /\ out = <<>>
    /\ err = "NoCall"
    /\ df = {}
    /\ arg = <<>>
    /\ first = NoResult
    /\ rows = <<>>
    /\ pc = "start"
    /\ syms = <<>>
    /\ sym = ""
    /\ df_sym_buy = <<>>
    /\ df_sym_sell = <<>>
    /\ realized_profits = <<>>
    /\ exc = ""

rest == <<batch, converted, transactions, hist, out, err, pvars, avars,
          previous>>

\* lines 28-36
LoadConversionDict ==
    /\ conversion_data' =
        IF rate_file.exists THEN json_load(rate_file.text)
        ELSE [is_none |-> FALSE, items |-> EmptyDict]
    /\ queried' = [d \in Dates |-> 0]
    /\ returned' = [d \in Dates |-> {}]
    /\ last' = [op |-> "load", date |-> 0, rate |-> NaN, raised |-> FALSE]
    /\ UNCHANGED <<rate_file, rest>>

\* lines 16-26 with conversion_data None: .keys() raises AttributeError
GetConversionRateNone(d) ==
    /\ conversion_data.is_none
    /\ last' = [op |-> "get", date |-> d, rate |-> NaN, raised |-> TRUE]
    /\ UNCHANGED <<conversion_data, rate_file, queried, returned, rest>>

\* GetConversionRateCached sending a request although the date is cached
GetConversionRateCached_Requests(d) ==
    /\ ~conversion_data.is_none
    /\ d \in DOMAIN conversion_data.items
    /\ returned' = [returned EXCEPT ![d] = @ \cup {conversion_data.items[d]}]
    /\ last' = [op |-> "get", date |-> d, rate |-> conversion_data.items[d],
                raised |-> FALSE]
    /\ queried' = [queried EXCEPT ![d] = @ + 1]
    /\ UNCHANGED <<conversion_data, rate_file, rest>>

\* lines 16-26, the date in the dict: no request
GetConversionRateCached(d) ==
    /\ ~conversion_data.is_none
    /\ d \in DOMAIN conversion_data.items
    /\ returned' = [returned EXCEPT ![d] = @ \cup {conversion_data.items[d]}]
    /\ last' = [op |-> "get", date |-> d, rate |-> conversion_data.items[d],
                raised |-> FALSE]
    /\ UNCHANGED <<conversion_data, rate_file, queried, rest>>

\* lines 16-26, the date not in the dict: one request, its answer is stored
GetConversionRateFetched(d) ==
    /\ ~conversion_data.is_none
    /\ d \notin DOMAIN conversion_data.items
    /\ \E conversion \in Quotes :
        /\ conversion_data' =
            [conversion_data EXCEPT
                !.items = [e \in DOMAIN @ \cup {d} |->
                              IF e = d THEN conversion ELSE @[e]]]
        /\ returned' = [returned EXCEPT ![d] = @ \cup {conversion}]
        /\ last' = [op |-> "get", date |-> d, rate |-> conversion,
                    raised |-> FALSE]
    /\ queried' = [queried EXCEPT ![d] = @ + 1]
    /\ UNCHANGED <<rate_file, rest>>

\* lines 38-44
SaveConversionDict ==
    /\ rate_file' = FileOf(conversion_data)
    /\ conversion_data' = [is_none |-> TRUE, items |-> EmptyDict]
    /\ last' = [op |-> "save", date |-> 0, rate |-> NaN, raised |-> FALSE]
    /\ UNCHANGED <<queried, returned, rest>>

NextRates ==
    \/ LoadConversionDict
    \/ \E d \in Dates : GetConversionRateNone(d)
    \/ \E d \in Dates : GetConversionRateCached(d)
    \/ \E d \in Dates : GetConversionRateFetched(d)
    \/ SaveConversionDict

SpecRates == InitRates /\ [][NextRates]_vars

(***************************************************************************)
(* CMCApiInterface: calls of get_price_for_symbol for one symbol, one      *)
(* after the other, while days pass.  A step of _get_data_from_api is a    *)
(* request with its response, the test of the while condition, one second  *)
(* of sleep, or the write of the cache file with the return.               *)
(***************************************************************************)
InitApi ==
    /\ ApiIdle
    /\ conversion_data = [is_none |-> TRUE, items |-> EmptyDict]
    /\ rate_file = NoFile
    /\ queried = [d \in Dates |-> 0]
    /\ returned = [d \in Dates |-> {}]
    /\ last = NoCall
    /\ previous = <<>>
    /\ batch = <<>>
    /\ converted = <<>>
    /\ transactions = <<>>
    /\ hist = FullHist
    /\ out = <<>>
    /\ err = "NoCall"
    /\ df = {}
    /\ arg = <<>>
    /\ first = NoResult
    /\ rows = <<>>
    /\ pc = "start"
    /\ syms = <<>>
    /\ sym = ""
    /\ df_sym_buy = <<>>
    /\ df_sym_sell = <<>>
    /\ realized_profits = <<>>
    /\ exc = ""

others == <<batch, converted, transactions, hist, out, err, pvars, rvars,
            previous>>

\* lines 86-88 with _get_data_from_cache: the file exists and is of today;
\* the price is missing from the data of an error response (KeyError)
GetPriceFromCache ==
    /\ api_pc \in {"idle", "returned"}
    /\ symbol_cache.exists /\ symbol_cache.today
    /\ api_pc' = "returned"
    /\ result' = [from |-> "cache", code |-> symbol_cache.code,
                  raised |-> symbol_cache.code # 0]
    /\ waited' = FALSE
    /\ UNCHANGED <<new_data, slept, symbol_cache, others>>

\* lines 86, 90 and 56-59: no file of today, the first request
FirstRequest ==
    /\ api_pc \in {"idle", "returned"}
    /\ ~(symbol_cache.exists /\ symbol_cache.today)
    /\ \E code \in ErrorCodes : new_data' = code
    /\ api_pc' = "while"
    /\ slept' = 0
    /\ waited' = FALSE
    /\ result' = NoPrice
    /\ UNCHANGED <<symbol_cache, others>>

\* lines 62-63: the response is a rate limit error, the wait starts
EnterWait ==
    /\ api_pc = "while"
    /\ new_data = RateLimited
    /\ api_pc' = "sleep"
    /\ slept' = 0
    /\ waited' = TRUE
    /\ UNCHANGED <<new_data, symbol_cache, result, others>>

\* lines 64-65: one of the sixty seconds
Sleep ==
    /\ api_pc = "sleep"
    /\ slept < WaitSeconds
    /\ slept' = slept + 1
    /\ UNCHANGED <<api_pc, new_data, waited, symbol_cache, result, others>>

\* RepeatRequest at any second of the wait
RepeatRequest_NoWait ==
    /\ api_pc = "sleep"
    /\ \E code \in ErrorCodes : new_data' = code
    /\ api_pc' = "while"
    /\ UNCHANGED <<slept, waited, symbol_cache, result, others>>

\* lines 66-67: the request is repeated
RepeatRequest ==
    /\ api_pc = "sleep"
    /\ slept = WaitSeconds
    /\ \E code \in ErrorCodes : new_data' = code
    /\ api_pc' = "while"
    /\ UNCHANGED <<slept, waited, symbol_cache, result, others>>

\* lines 62, 69-74 and 92: the response is no rate limit error; it is
\* written to the cache file and returned
WriteAndReturn ==
    /\ api_pc = "while"
    /\ new_data # RateLimited
    /\ symbol_cache' = [exists |-> TRUE, code |-> new_data, today |-> TRUE]
    /\ result' = [from |-> "api", code |-> new_data, raised |-> new_data # 0]
    /\ api_pc' = "returned"
    /\ UNCHANGED <<new_data, slept, waited, others>>

\* line 45-47: midnight (UTC) passes between two calls
NewDay ==
    /\ api_pc \in {"idle", "returned"}
    /\ symbol_cache.exists /\ symbol_cache.today
    /\ symbol_cache' = [symbol_cache EXCEPT !.today = FALSE]
    /\ UNCHANGED <<api_pc, new_data, slept, waited, result, others>>

GetDataFromApi == EnterWait \/ Sleep \/ RepeatRequest \/ WriteAndReturn

NextApi ==
    \/ GetPriceFromCache
    \/ FirstRequest
    \/ EnterWait
    \/ Sleep
    \/ RepeatRequest
    \/ WriteAndReturn
    \/ NewDay

SpecApi == InitApi /\ [][NextApi]_vars

\* a call that has started goes on: the interpreter runs the next statement
\* and a request is answered
SpecApiLive == SpecApi /\ WF_vars(GetDataFromApi)

(***************************************************************************)
(* The ledger under repeated calls of add_transactions_manually with one   *)
(* dict or with a list of two, events that the ledger holds already        *)
(* included, as long as the ledger holds at most MaxRows rows.  batch and  *)
(* converted are the tables _sanitize_df and _convert_transactions         *)
(* returned in the last call.                                              *)
(***************************************************************************)
\* a pair against USD with the fee in USD, and against EUR with the fee in
\* EUR
LedgerTrades ==
    LedgerTimes \X Sides \X {<<"A", "USD", 3, 2, "USD">>,
                            <<"A", "EUR", 3, 2, "EUR">>}

\* one dict, or a buy and a sell
ListsOfDicts ==
    {<<Dict(t1, <<1, 1>>)>> : t1 \in LedgerTrades} \cup
    {<<Dict(t1, <<1, 1>>), Dict(t2, <<1, 1>>)>> :
        t1 \in {t \in LedgerTrades : t[2] = "buy"},
        t2 \in {t \in LedgerTrades : t[2] = "sell"}}

InitLedger == InitHandler

\* lines 69-73
AddToLedger ==
    /\ \E d_l \in ListsOfDicts :
        LET sane == sanitize_df(prepare_dataframe_from_dict_list(d_l))
        IN  /\ batch' = sane
            /\ converted' = convert_transactions(sane)
            /\ \E T \in extend_transactions_dataframe(transactions,
                                                      convert_transactions(sane)) :
                /\ Len(T) <= MaxRows
                /\ transactions' = T
    /\ previous' = transactions
    /\ UNCHANGED <<hist, out, err, rvars, avars, pvars>>

NextLedger == AddToLedger

SpecLedger == InitLedger /\ [][NextLedger]_vars

(***************************************************************************)
(* Vocabulary of the properties, stated on the input table and on the      *)
(* (Size, Funds) columns of the lot table before and after a sell          *)
(***************************************************************************)
LastRec == realized_profits[Len(realized_profits)]

\* number of sell rows of the current symbol already processed
Processed == Len(Loc(rows, sym, "sell")) - Len(df_sym_sell)

\* a step of the sell loop that appends a record
Emits == pc = "sells" /\ Len(realized_profits') = Len(realized_profits) + 1

NewRec == realized_profits'[Len(realized_profits')]

SalePrice(row) == RDiv(row.Funds, R(-row.Size))

\* per-lot profit of a sell: consumed size x sale price + cost consumed
LotProfit(before, after, price) ==
    RAdd(RMul(R(before.Size - after.Size), price),
         RSub(before.Funds, after.Funds))

\* size of the asset bought and not yet sold up to a sell's timestamp
Held(e) ==
    LET bought == {b \in df : b.Symbol = e.Symbol /\ b.Side = "buy"
                               /\ b.Datetime <= e.Datetime}
        sold   == {x \in df : x.Symbol = e.Symbol /\ x.Side = "sell"
                               /\ x.Datetime < e.Datetime}
        Sz(k)  == IF \E x \in bought \cup sold : x.Datetime = k[1] /\ x.Side = k[2]
                  THEN (CHOOSE x \in bought \cup sold :
                            x.Datetime = k[1] /\ x.Side = k[2]).Size
                  ELSE 0
        ks     == {<<x.Datetime, x.Side>> : x \in bought \cup sold}
        RECURSIVE Total(_)
        Total(K) == IF K = {} THEN 0
                    ELSE LET k == CHOOSE k \in K : TRUE
                         IN  Sz(k) + Total(K \ {k})
    IN  Total(ks)

Covered(e) == Held(e) >= -e.Size

\* the sell event of the input table a record belongs to
SellOf(rec) ==
    CHOOSE e \in df : e.Symbol = rec.Symbol /\ e.Side = "sell"
                      /\ e.Datetime = rec.Datetime

PrefixSize(lots, i) == SumSeq([j \in 1..i |-> lots[j].Size])

FifoConsumed(before, after, row, rec) ==
    LET n   == -row.Size
        hit == {i \in DOMAIN before : PrefixSize(before, i) >= n}
    IN  /\ hit # {}
        /\ LET b        == CHOOSE i \in hit : \A j \in hit : i <= j
               consumed == n - PrefixSize(before, b - 1)
               share    == RDiv(RMul(before[b].Funds, R(consumed)),
                                R(before[b].Size))
           IN  /\ before[b].Datetime <= row.Datetime
               /\ \A i \in 1..(b - 1) :
                    after[i].Size = 0 /\ after[i].Funds = R(0)
               /\ \A i \in (b + 1)..Len(before) :
                    /\ after[i].Size = before[i].Size
                    /\ after[i].Funds = before[i].Funds
               /\ after[b].Size = before[b].Size - consumed
               /\ after[b].Funds = RSub(before[b].Funds, share)
               /\ rec.FundsPaid =
                    RAdd(RSumSeq([i \in 1..(b - 1) |-> before[i].Funds]), share)
        /\ rec.FundsReceived = row.Funds
        /\ rec.ProfitLoss = RAdd(rec.FundsPaid, rec.FundsReceived)

Scenarios(rec) ==
    /\ df = ExampleFIFO =>
        /\ rec.FundsPaid = R(-1240)
        /\ rec.FundsReceived = R(1500)
        /\ rec.ProfitLoss = R(260)
    /\ df = ExampleEndToEnd =>
        /\ rec.FundsPaid = R(-20000)
        /\ rec.ProfitLoss = R(5000)

C2_FIFO ==
    [][(Emits /\ Covered(SellOf(NewRec))) =>
        /\ FifoConsumed(df_sym_buy, df_sym_buy', Head(df_sym_sell), NewRec)
        /\ Scenarios(NewRec)]_vars

\* C2 on the ledgers on which no sell of the asset, up to and including the
\* one processed, is oversold: there the FIFO statement holds.
NeverOversold(e) ==
    \A x \in df : (x.Symbol = e.Symbol /\ x.Side = "sell"
                   /\ x.Datetime <= e.Datetime) => Covered(x)

C2_FIFO_NeverOversold ==
    [][(Emits /\ NeverOversold(SellOf(NewRec))) =>
        /\ FifoConsumed(df_sym_buy, df_sym_buy', Head(df_sym_sell), NewRec)
        /\ Scenarios(NewRec)]_vars

C2_Witness ==
    /\ pc = "done"
    /\ df \in {ExampleFIFO, ExampleEndToEnd}
    /\ Len(realized_profits) = 1

(***************************************************************************)
(* C3 (oversold detection): no record is ever emitted for a sell whose     *)
(* size exceeds the size bought and not yet sold up to its timestamp.      *)
(***************************************************************************)
C3_OversoldRaises ==
    \A i \in DOMAIN realized_profits : Covered(SellOf(realized_profits[i]))

(***************************************************************************)
(* C4 (monotonicity): over the sells of an asset, the remaining size of    *)
(* every lot never increases and stays between 0 and the original size.    *)
(***************************************************************************)
OriginalLot(i) == Loc(rows, sym, "buy")[i]

C4_RemainingSizeMonotone ==
    [][Emits =>
        \A i \in DOMAIN df_sym_buy :
            /\ df_sym_buy'[i].Size <= df_sym_buy[i].Size
            /\ df_sym_buy'[i].Size >= 0
            /\ df_sym_buy'[i].Size <= OriginalLot(i).Size]_vars

(***************************************************************************)
(* C5 (proportional cost basis): at every point of the matching pass and   *)
(* for every lot, remaining funds / original funds = remaining size /      *)
(* original size (cross-multiplied).                                       *)
(***************************************************************************)
C5_CostPerUnitConstant ==
    pc = "sells" =>
        \A i \in DOMAIN df_sym_buy :
            RMul(df_sym_buy[i].Funds, R(OriginalLot(i).Size)) =
            RMul(OriginalLot(i).Funds, R(df_sym_buy[i].Size))

(***************************************************************************)
(* C6 (taxable amount): the 'To be taxed' amount of a record is the sum of *)
(* the per-lot profit over the lots touched by the sell (size or funds     *)
(* consumed) that were held at most 365 whole days or have a negative      *)
(* profit; every other lot contributes nothing.                            *)
(***************************************************************************)
WholeDaysHeld(row, lot) == (row.Datetime - lot.Datetime) \div TicksPerDay

TaxableShare(before, after, row) ==
    LET profit  == LotProfit(before, after, SalePrice(row))
        touched == before.Size # after.Size \/ before.Funds # after.Funds
    IN  IF touched /\ (WholeDaysHeld(row, before) <= 365 \/ RLt0(profit))
        THEN profit ELSE R(0)

SellsInOrder ==
    LET sells == {e \in df : e.Side = "sell"}
        Earlier(a, b) ==
            \/ SymRank(a.Symbol) < SymRank(b.Symbol)
            \/ a.Symbol = b.Symbol /\ a.Datetime < b.Datetime
    IN  [i \in 1..Cardinality(sells) |->
            CHOOSE x \in sells :
                Cardinality({y \in sells : Earlier(y, x)}) = i - 1]

PositionOf(dt, s, side) ==
    CHOOSE i \in DOMAIN rows :
        rows[i].Datetime = dt /\ rows[i].Symbol = s /\ rows[i].Side = side

C10_BuyBeforeSell ==
    [][(pc = "sells" /\ df_sym_sell # <<>>) =>
        LET row == Head(df_sym_sell)
        IN  \A i \in DOMAIN df_sym_buy :
                df_sym_buy[i].Datetime = row.Datetime =>
                    LET b == PositionOf(row.Datetime, sym, "buy")
                        x == PositionOf(row.Datetime, sym, "sell")
                    IN  /\ b < x
                        /\ rows[x].TotalSize = rows[b].TotalSize + row.Size
                        /\ df_sym_buy'[i].TotalSize =
                             Max(0, df_sym_buy[i].TotalSize + row.Size)]_vars

\* a sell that is covered only thanks to the buy of the same instant
C10_Witness ==
    /\ pc = "sells"
    /\ Processed >= 1
    /\ \E i \in DOMAIN df_sym_buy :
        /\ df_sym_buy[i].Datetime = LastRec.Datetime
        /\ df_sym_buy[i].SoldSize > 0
    /\ NeverOversold(SellOf(LastRec))
    /\ LastRec.FundsPaid # R(0)

(***************************************************************************)
(* The pass computed step by step and the pass computed as a function      *)
(* agree on the outcome.                                                   *)
(***************************************************************************)
PassAgrees ==
    /\ pc = "done" =>
        /\ ~get_realized_profits(df).raised
        /\ get_realized_profits(df).recs = realized_profits
    /\ pc = "raised" =>
        /\ get_realized_profits(df).raised
        /\ get_realized_profits(df).recs = realized_profits

(***************************************************************************)
(* C8 (no-sell asset): an asset with buys and no sell never gets a record, *)
(* and the outcome of the pass (the records, or the exception) is the      *)
(* outcome of the pass over the table without the rows of such assets.     *)
(***************************************************************************)
SymbolsOf(S) == {e.Symbol : e \in S}

NoSellSymbols ==
    {s \in SymbolsOf(df) : ~\E e \in df : e.Symbol = s /\ e.Side = "sell"}

WithoutNoSell == {e \in df : e.Symbol \notin NoSellSymbols}

C8_NoSellAssetSkipped ==
    /\ \A i \in DOMAIN realized_profits :
        realized_profits[i].Symbol \notin NoSellSymbols
    /\ pc = "done" =>
        /\ ~get_realized_profits(WithoutNoSell).raised
        /\ get_realized_profits(WithoutNoSell).recs = realized_profits
    /\ pc = "raised" => get_realized_profits(WithoutNoSell).raised

\* the call returned the records of one asset and skipped another one that
\* was bought at the same instant or earlier
C8_Witness ==
    /\ pc = "done"
    /\ NoSellSymbols # {}
    /\ Len(realized_profits) >= 1
    /\ realized_profits[1].FundsPaid # R(0)
    /\ \E e \in df : /\ e.Symbol \in NoSellSymbols
                     /\ e.Datetime <= realized_profits[1].Datetime

(***************************************************************************)
(* C9 (failure isolation): when the computation of one asset fails, the    *)
(* call still returns the records of every other asset whose own           *)
(* computation succeeds.  A call that raises returns nothing.              *)
(***************************************************************************)
Returned == IF pc = "done" THEN realized_profits ELSE <<>>

OnlySymbol(s) == {e \in df : e.Symbol = s}

C9_FailureIsolated ==
    pc = "raised" =>
        \A s \in SymbolsOf(df) \ {sym} :
            LET r == get_realized_profits(OnlySymbol(s))
            IN  ~r.raised =>
                    \A k \in DOMAIN r.recs :
                        \E i \in DOMAIN Returned : Returned[i] = r.recs[k]

(***************************************************************************)
(* Vocabulary of the properties of the handler                             *)
(***************************************************************************)
\* get_transactions_based_on_usd was called and returned the table out
ReturnedUSD == err = "NoError"

Swaps == {i \in DOMAIN transactions : transactions[i].Pair[2] # "USD"}

HasPrice(s, day) == s \in DOMAIN hist /\ day \in hist[s]

\* mid = (open + close) / 2 of an asset on a day
Mid(s, day) == RDiv(RAdd(R(Open(s, day)), R(Close(s, day))), R(2))

\* the rows of the returned table that are the swap row e relabelled, and
\* the rows that are its synthetic counterpart
Relabelled(e) ==
    {k \in DOMAIN out : /\ out[k].Datetime = e.Datetime
                        /\ out[k].Pair = <<e.Pair[1], "USD">>
                        /\ out[k].Side = e.Side
                        /\ out[k].Size = e.Size}

Synthetic(e) ==
    {k \in DOMAIN out : /\ out[k].Datetime = e.Datetime
                        /\ out[k].Pair = <<e.Pair[2], "USD">>
                        /\ out[k].Side # e.Side
                        /\ out[k].Side \in Sides
                        /\ out[k].Size = e.Funds}

(***************************************************************************)
(* C11 (swap split): the returned table has one row more than the ledger   *)
(* per swap row, and for every swap row whose counter asset has a price on *)
(* the row's day it holds the row relabelled '<bought>-USD' with the same  *)
(* Side and Size and a row '<counter>-USD' with the opposite Side, Size =  *)
(* the original funds and Funds = -(mid x original funds), both with the   *)
(* row's Datetime and fee currency USD, the Funds of the first being the   *)
(* negative of the Funds of the second.                                    *)
(***************************************************************************)
C11_SwapSplit ==
    ReturnedUSD =>
        /\ Len(out) = Len(transactions) + Cardinality(Swaps)
        /\ \A i \in Swaps :
            LET e   == transactions[i]
                mid == Mid(e.Pair[2], Day(e.Datetime))
            IN  HasPrice(e.Pair[2], Day(e.Datetime)) =>
                    \E k1 \in Relabelled(e), k2 \in Synthetic(e) :
                        /\ out[k2].Funds = RNeg(RMul(mid, e.Funds))
                        /\ out[k1].Funds = RNeg(out[k2].Funds)
                        /\ out[k1].FeeCurrency = "USD"
                        /\ out[k2].FeeCurrency = "USD"

\* a buy swap and a sell swap of non-zero funds, on different days
C11_Witness ==
    /\ ReturnedUSD
    /\ hist = FullHist
    /\ Len(out) = 4
    /\ \E i, j \in Swaps :
        /\ transactions[i].Side = "buy" /\ transactions[j].Side = "sell"
        /\ transactions[i].Funds # R(0) /\ transactions[j].Funds # R(0)
        /\ Day(transactions[i].Datetime) # Day(transactions[j].Datetime)

(***************************************************************************)
(* C12 (all USD): every row of the returned table has USD as the counter   *)
(* asset of its Pair and USD as its Fee currency.                          *)
(***************************************************************************)
C12_EveryRowUSD ==
    ReturnedUSD =>
        \A k \in DOMAIN out :
            out[k].Pair[2] = "USD" /\ out[k].FeeCurrency = "USD"

(***************************************************************************)
(* C13 (idempotence): on a ledger whose rows all have USD as counter asset *)
(* and as fee currency, a call of get_transactions_based_on_usd returns    *)
(* the ledger itself, row for row, leaves the ledger as it is, and returns *)
(* what the call before it returned.                                       *)
(***************************************************************************)
C13_UnifiedIsIdentity ==
    [][(err' # "NoCall" /\ AllUSD(transactions)) =>
        /\ err' = "NoError"
        /\ out' = transactions
        /\ transactions' = transactions
        /\ (err # "NoCall" => out' = out /\ err' = err)]_vars

\* the ledger returned holds two rows, one of them bought against EUR and
\* converted at ingestion, and the price files at the call were incomplete
C13_Witness ==
    /\ ReturnedUSD
    /\ AllUSD(transactions)
    /\ Len(transactions) = 2
    /\ out = transactions
    /\ hist # FullHist
    /\ \E i \in DOMAIN transactions : transactions[i].Funds[2] # 1

(***************************************************************************)
(* C14 (missing price): when the counter asset or the fee currency of a    *)
(* swap row has no price row for the row's day, the call raises: it does   *)
(* not return a table.                                                     *)
(***************************************************************************)
MissingPrice ==
    \E i \in Swaps :
        LET e == transactions[i]
        IN  \/ ~HasPrice(e.Pair[2], Day(e.Datetime))
            \/ /\ e.FeeCurrency # "USD"
               /\ ~HasPrice(e.FeeCurrency, Day(e.Datetime))

C14_MissingPriceRaises ==
    (err # "NoCall" /\ MissingPrice) => ~ReturnedUSD

(***************************************************************************)
(* C15 (fee of a swap): for a swap row whose prices exist, one of its two  *)
(* rows in the returned table carries the fee, equal to the original fee x *)
(* the mid price of the fee currency on the row's day (x 1 when the fee    *)
(* currency is USD), and the other row has fee 0.                          *)
(***************************************************************************)
FeeInUSD(e) ==
    IF e.FeeCurrency = "USD" THEN e.Fee
    ELSE RMul(e.Fee, Mid(e.FeeCurrency, Day(e.Datetime)))

FeeCarriedOnce(e) ==
    \E k1 \in Relabelled(e), k2 \in Synthetic(e) :
        \/ out[k1].Fee = FeeInUSD(e) /\ out[k2].Fee = R(0)
        \/ out[k1].Fee = R(0) /\ out[k2].Fee = FeeInUSD(e)

PricesExist(e) ==
    /\ HasPrice(e.Pair[2], Day(e.Datetime))
    /\ e.FeeCurrency # "USD" => HasPrice(e.FeeCurrency, Day(e.Datetime))

C15_SwapFee ==
    ReturnedUSD =>
        \A i \in Swaps :
            PricesExist(transactions[i]) => FeeCarriedOnce(transactions[i])

\* C15 on the swap rows whose fee is not in USD: there the statement holds
C15_SwapFee_NotUSD ==
    ReturnedUSD =>
        \A i \in Swaps :
            (PricesExist(transactions[i])
                /\ transactions[i].FeeCurrency # "USD")
            => FeeCarriedOnce(transactions[i])

(***************************************************************************)
(* C16 (EUR conversion): in the table returned by _convert_transactions,   *)
(* a row whose counter currency was EUR has Funds = original funds x the   *)
(* EUR->USD rate of its day and its pair relabelled to USD; a fee that was *)
(* in EUR is the original fee x the rate of the row's day and is labelled  *)
(* USD; a row without EUR keeps Pair, Funds, Fee and Fee currency.         *)
(***************************************************************************)
RateOf(row) == get_conversion_rate(Day(row.Datetime))

FundsConverted(i) ==
    batch[i].Pair[2] = "EUR" =>
        /\ converted[i].Funds = RMul(batch[i].Funds, RateOf(batch[i]))
        /\ converted[i].Pair = <<batch[i].Pair[1], "USD">>

FeeConverted(i) ==
    batch[i].FeeCurrency = "EUR" =>
        /\ converted[i].Fee = RMul(batch[i].Fee, RateOf(batch[i]))
        /\ converted[i].FeeCurrency = "USD"

NoEUR(row) == ~ContainsEUR(row.Pair) /\ row.FeeCurrency # "EUR"

Kept(i) ==
    NoEUR(batch[i]) =>
        /\ converted[i].Pair = batch[i].Pair
        /\ converted[i].Funds = batch[i].Funds
        /\ converted[i].Fee = batch[i].Fee
        /\ converted[i].FeeCurrency = batch[i].FeeCurrency

C16_EURConverted ==
    converted # <<>> =>
        /\ Len(converted) = Len(batch)
        /\ \A i \in DOMAIN batch :
            FundsConverted(i) /\ FeeConverted(i) /\ Kept(i)

\* C16 with the fee clause read on the rows whose pair contains EUR only:
\* this holds
C16_EURConverted_PairRows ==
    converted # <<>> =>
        /\ Len(converted) = Len(batch)
        /\ \A i \in DOMAIN batch :
            /\ FundsConverted(i)
            /\ ContainsEUR(batch[i].Pair) => FeeConverted(i)
            /\ Kept(i)

(***************************************************************************)
(* C17 (signs): every row of the ledger filled by                          *)
(* add_transactions_manually and, when the counter asset of every swap row *)
(* has a price that day (prices are positive), every row of the table      *)
(* returned by get_transactions_based_on_usd has Size > 0 and Funds <= 0   *)
(* if its Side is 'buy', Size < 0 and Funds >= 0 if its Side is 'sell'.    *)
(***************************************************************************)
RGt0(x) == ~IsNaN(x) /\ x[1] > 0

RGe0(x) == ~IsNaN(x) /\ x[1] >= 0

RLe0(x) == ~IsNaN(x) /\ x[1] <= 0

SignsFollowSide(row) ==
    /\ row.Side \in Sides
    /\ row.Side = "buy" => RGt0(row.Size) /\ RLe0(row.Funds)
    /\ row.Side = "sell" => RLt0(row.Size) /\ RGe0(row.Funds)

SwapsPriced ==
    \A i \in Swaps :
        HasPrice(transactions[i].Pair[2], Day(transactions[i].Datetime))

C17_SignsFollowSide ==
    /\ \A i \in DOMAIN transactions : SignsFollowSide(transactions[i])
    /\ (ReturnedUSD /\ SwapsPriced) =>
            \A k \in DOMAIN out : SignsFollowSide(out[k])

\* C17 on the ledger, and on the returned table when no swap row has zero
\* funds: there the statement holds
C17_SignsFollowSide_NonZeroFunds ==
    /\ \A i \in DOMAIN transactions : SignsFollowSide(transactions[i])
    /\ (ReturnedUSD /\ SwapsPriced
            /\ \A i \in Swaps : transactions[i].Funds # R(0)) =>
            \A k \in DOMAIN out : SignsFollowSide(out[k])

(***************************************************************************)
(* C18 (append-only): every row stored in the ledger before a call of      *)
(* add_transactions_manually is in the ledger after it, with the same      *)
(* Size, Funds, Fee, Fee currency and Broker.                              *)
(***************************************************************************)
C18_AppendOnly ==
    [][\A i \in DOMAIN transactions :
        \E j \in DOMAIN transactions' :
            transactions'[j] = transactions[i]]_vars

\* the stored rows never lose their (Datetime, Pair, Side): a row of each
\* stored key stays, possibly with the values of the row added
C18_KeysStay ==
    [][\A i \in DOMAIN transactions :
        \E j \in DOMAIN transactions' :
            Key(transactions'[j]) = Key(transactions[i])]_vars

(***************************************************************************)
(* C19 (inputs untouched): at every point of get_realized_profits, and     *)
(* after it returned or raised, the table handed to the call holds the     *)
(* same events with the same Size and Funds as at the call, the ledger of  *)
(* the handler is as it was, and so is the indexed table the lot tables    *)
(* are copied from: the sells change the per-asset lot table only.         *)
(***************************************************************************)
EventsOf(frame) ==
    {[Datetime |-> frame[i].Datetime, Symbol |-> frame[i].Symbol,
      Side |-> frame[i].Side, Size |-> frame[i].Size,
      Funds |-> frame[i].Funds] : i \in DOMAIN frame}

C19_InputsUntouched ==
    /\ EventsOf(arg) = df
    /\ Len(arg) = Cardinality(df)
    /\ transactions = [i \in DOMAIN AsFrame(df) |-> LedgerRowOf(AsFrame(df)[i])]
    /\ pc # "start" => EventsOf(rows) = df /\ Len(rows) = Cardinality(df)

\* the call returned after a sell consumed part of a lot; the table handed
\* in was reordered by the call
C19_Witness ==
    /\ pc = "done"
    /\ Len(realized_profits) >= 1
    /\ \E i \in DOMAIN df_sym_buy :
        /\ df_sym_buy[i].SoldSize > 0
        /\ df_sym_buy[i].Size > 0
        /\ df_sym_buy[i].Funds # OriginalLot(i).Funds
    /\ \E i \in DOMAIN arg : arg[i].Datetime # AsFrame(df)[i].Datetime
                             \/ arg[i].Side # AsFrame(df)[i].Side

(***************************************************************************)
(* C20 (determinism): a second call on the same table ends as the first    *)
(* did, with the same records in the same order or with an exception at    *)
(* the same point, and every lot table of the second call starts from the  *)
(* events: remaining size and funds as bought, nothing sold, no tax flag.  *)
(***************************************************************************)
FreshLot(lot) ==
    /\ \E e \in df : /\ e.Symbol = sym' /\ e.Side = "buy"
                     /\ e.Datetime = lot.Datetime
                     /\ e.Size = lot.Size /\ e.Funds = lot.Funds
    /\ lot.SoldSize = 0
    /\ lot.SoldValue = R(0)
    /\ lot.Profits = R(0)
    /\ lot.HeldDays = 0
    /\ lot.ToBeTaxed = FALSE

C20_SameOutcome ==
    first.called =>
        /\ pc = "done" =>
            ~first.raised /\ realized_profits = first.recs
        /\ pc = "raised" =>
            first.raised /\ realized_profits = first.recs

C20_Deterministic ==
    [][/\ C20_SameOutcome'
       /\ (pc = "loop" /\ pc' = "sells") =>
            \A i \in DOMAIN df_sym_buy' : FreshLot(df_sym_buy'[i])]_vars

\* the second call returned two records; the first call had consumed lots
C20_Witness ==
    /\ first.called
    /\ pc = "done"
    /\ Len(realized_profits) = 2
    /\ realized_profits[1].FundsPaid # R(0)
    /\ realized_profits[2].FundsPaid # R(0)
    /\ \E i \in DOMAIN df_sym_buy : df_sym_buy[i].SoldSize > 0

(***************************************************************************)
(* C21 (malformed events rejected): no row of the ledger has a non-finite  *)
(* Size or Funds or a Datetime that is no timestamp: a call of             *)
(* add_transactions_manually with such an event leaves it out.             *)
(***************************************************************************)
WellFormed(row) ==
    /\ ~IsNaN(row.Size)
    /\ ~IsNaN(row.Funds)
    /\ row.Datetime \notin Unparsed

C21_MalformedRejected ==
    \A i \in DOMAIN transactions : WellFormed(transactions[i])

(***************************************************************************)
(* C22 (NaN is fatal): a sell whose own Funds is NaN, or that touches a    *)
(* lot (the boundary lot or a lot before it) whose Funds is NaN, makes     *)
(* get_realized_profits raise: no record is appended for it.               *)
(***************************************************************************)
NaNEnters ==
    LET row == Head(df_sym_sell)
    IN  \/ IsNaN(row.Funds)
        \/ \E i \in DOMAIN df_sym_buy :
            /\ i <= first_dt(df_sym_buy, row.Size)
            /\ IsNaN(df_sym_buy[i].Funds)

C22_NaNRaises ==
    [][(pc = "sells" /\ df_sym_sell # <<>> /\ NaNEnters) =>
            pc' = "raised" /\ realized_profits' = realized_profits]_vars

\* what does hold: no emitted record has an undefined field
C22_NaNRaises_NoUndefinedField ==
    \A i \in DOMAIN realized_profits :
        /\ ~IsNaN(realized_profits[i].FundsPaid)
        /\ ~IsNaN(realized_profits[i].FundsReceived)
        /\ ~IsNaN(realized_profits[i].ProfitLoss)
        /\ ~IsNaN(realized_profits[i].ToBeTaxed)

\* and a sell for non-zero funds that meets a NaN does raise
C22_NaNRaises_NonZeroFunds ==
    [][(pc = "sells" /\ df_sym_sell # <<>> /\ NaNEnters
            /\ Head(df_sym_sell).Funds # R(0)) =>
            pc' = "raised" /\ realized_profits' = realized_profits]_vars

(***************************************************************************)
(* C23 (boundary lot): for every emitted record, the funds taken from the  *)
(* boundary lot are (1 - Total Size of the lot after the sell / size of    *)
(* the lot) x the remaining funds of the lot before the sell.  As stated,  *)
(* with the size the lot was bought with:                                  *)
(***************************************************************************)
Boundary == first_dt(df_sym_buy, Head(df_sym_sell).Size)

\* the funds the step takes from the boundary lot
TakenFromBoundary ==
    RSub(df_sym_buy[Boundary].Funds, df_sym_buy'[Boundary].Funds)

Fraction(size) ==
    RSub(R(1), RDiv(R(df_sym_buy'[Boundary].TotalSize), R(size)))

C23_BoundaryShare_OriginalSize ==
    [][Emits =>
        TakenFromBoundary =
            RMul(Fraction(OriginalLot(Boundary).Size),
                 df_sym_buy[Boundary].Funds)]_vars

(***************************************************************************)
(* C23 amended: the divisor is the remaining size of the lot before the    *)
(* sell (line 113 reduces the Size column at every sell), which is the     *)
(* original size only while the lot is untouched; the fraction is then the *)
(* part of the remaining size the sell takes.                              *)
(***************************************************************************)
C23_BoundaryShare ==
    [][Emits =>
        /\ TakenFromBoundary =
            RMul(Fraction(df_sym_buy[Boundary].Size),
                 df_sym_buy[Boundary].Funds)
        /\ Fraction(df_sym_buy[Boundary].Size) =
            RDiv(R(df_sym_buy[Boundary].Size - df_sym_buy'[Boundary].Size),
                 R(df_sym_buy[Boundary].Size))]_vars

\* two sells have taken funds from the same single lot, which is not used up
C23_Witness ==
    /\ pc = "sells"
    /\ Len(df_sym_buy) = 1
    /\ Len(realized_profits) = 2
    /\ realized_profits[1].FundsPaid # R(0)
    /\ realized_profits[2].FundsPaid # R(0)
    /\ df_sym_buy[1].Size > 0
    /\ df_sym_buy[1].Size < OriginalLot(1).Size

(***************************************************************************)
(* C24 (boundary search without a hit): a sell for which no lot has        *)
(* Total Size + S >= 0 is processed with one lot as its boundary lot: the  *)
(* lots up to it get Sold Size, Held days and To be taxed written, the     *)
(* lots before it lose their funds, the lots after it keep every column    *)
(* but Total Size.  As stated, that lot is the last lot of the asset:      *)
(***************************************************************************)
NoLotCovers ==
    /\ pc = "sells"
    /\ df_sym_sell # <<>>
    /\ \A i \in DOMAIN df_sym_buy :
        df_sym_buy[i].TotalSize + Head(df_sym_sell).Size < 0

ProcessedWithBoundary(f) ==
    LET dt == Head(df_sym_sell).Datetime
    IN  \A i \in DOMAIN df_sym_buy :
            LET before == df_sym_buy[i]
                after  == df_sym_buy'[i]
            IN  /\ i <= f =>
                    /\ after.SoldSize = before.Size - after.TotalSize
                    /\ after.Size = before.Size - after.SoldSize
                    /\ after.HeldDays = HeldDays(dt, before)
                    /\ after.ToBeTaxed = (after.HeldDays <= HoldingThreshold)
                /\ i < f => after.Funds = R(0)
                /\ i > f => after = [before EXCEPT !.TotalSize = after.TotalSize]

C24_MissSelectsLast ==
    [][NoLotCovers => ProcessedWithBoundary(Len(df_sym_buy))]_vars

(***************************************************************************)
(* C24 amended: idxmax of a column that is False throughout is the first   *)
(* label, so the sell is processed with the first lot of the asset as its  *)
(* boundary lot.                                                           *)
(***************************************************************************)
C24_MissSelectsFirst ==
    [][NoLotCovers => ProcessedWithBoundary(1)]_vars

\* a record was emitted for a sell of more than the two lots hold together;
\* the first lot was consumed and the second lot was not touched
C24_Witness ==
    /\ pc = "sells"
    /\ Len(df_sym_buy) = 2
    /\ Len(realized_profits) = 1
    /\ -SellOf(LastRec).Size > OriginalLot(1).Size + OriginalLot(2).Size
    /\ \A e \in df : e.Side = "sell" => e = SellOf(LastRec)
    /\ df_sym_buy[1].SoldSize > 0
    /\ df_sym_buy[2].SoldSize = 0
    /\ ~df_sym_buy[2].ToBeTaxed

(***************************************************************************)
(* C25 (rate cache): since the last load_conversion_dict at most one       *)
(* request per date went to the rate source and all calls of               *)
(* get_conversion_rate for a date returned one rate; a call for a date     *)
(* that the cache file held at the load sends no request and returns the   *)
(* rate that save_conversion_dict wrote, and the file save_conversion_dict *)
(* writes reads back as the dict that was saved.                           *)
(***************************************************************************)
Written == json_load(rate_file.text).items

C25_AtMostOneQuery ==
    [][/\ \A d \in Dates : queried'[d] <= 1 /\ Cardinality(returned'[d]) <= 1
       /\ \A d \in Dates :
            (/\ last'.op = "get" /\ last'.date = d /\ ~last'.raised
             /\ rate_file.exists /\ ~rate_file.text.null
             /\ d \in DOMAIN Written) =>
                /\ last'.rate = Written[d]
                /\ queried' = queried
       /\ (last'.op = "save" /\ ~conversion_data.is_none) =>
            json_load(rate_file'.text) = conversion_data]_vars

\* a rate fetched in one session was saved, loaded again and returned
\* without a request, after the same session had to fetch another date
C25_Witness ==
    /\ last.op = "get"
    /\ ~last.raised
    /\ rate_file.exists
    /\ last.date \in DOMAIN Written
    /\ last.rate = Written[last.date]
    /\ queried[last.date] = 0
    /\ \E d \in Dates : queried[d] = 1 /\ d \notin DOMAIN Written

(***************************************************************************)
(* C26 (rate-limit backoff): a response with error code 1008 is never in   *)
(* the cache file and never returned; after such a response the call       *)
(* sleeps the full sixty seconds and then repeats the request, and does    *)
(* nothing else; after a response with another code the call writes that   *)
(* response to the cache and returns it in its next step; and a call       *)
(* returns from the API only that way.                                     *)
(***************************************************************************)
C26_NeverKept ==
    /\ symbol_cache.exists => symbol_cache.code # RateLimited
    /\ result.from # "none" => result.code # RateLimited

C26_Steps ==
    /\ (api_pc = "while" /\ new_data = RateLimited) =>
            api_pc' = "sleep" /\ slept' = 0
                /\ symbol_cache' = symbol_cache /\ result' = result
    /\ (api_pc = "sleep" /\ api_pc' = "sleep") =>
            slept' = slept + 1 /\ slept' <= WaitSeconds
                /\ symbol_cache' = symbol_cache /\ result' = result
    /\ (api_pc = "sleep" /\ api_pc' # "sleep") =>
            slept = WaitSeconds /\ api_pc' = "while"
                /\ symbol_cache' = symbol_cache /\ result' = result
    /\ (api_pc = "while" /\ new_data # RateLimited) =>
            /\ api_pc' = "returned"
            /\ result' = [from |-> "api", code |-> new_data,
                          raised |-> new_data # 0]
            /\ symbol_cache'.exists /\ symbol_cache'.code = new_data
    /\ (api_pc' = "returned" /\ result'.from = "api"
            /\ <<api_pc, result>> # <<api_pc', result'>>) =>
            api_pc = "while" /\ new_data # RateLimited

C26_Backoff ==
    /\ []C26_NeverKept
    /\ [][C26_Steps]_vars
    /\ (api_pc = "while" /\ new_data = RateLimited) ~>
            (api_pc = "sleep" /\ slept = WaitSeconds)
    /\ (api_pc = "sleep" /\ slept = WaitSeconds) ~> api_pc = "while"
    /\ (api_pc = "while" /\ new_data # RateLimited) ~> api_pc = "returned"

\* a call has returned a response from the API after it had waited
C26_Witness ==
    /\ api_pc = "returned"
    /\ waited
    /\ slept = WaitSeconds
    /\ result.from = "api"
    /\ result.code = 0
    /\ symbol_cache = [exists |-> TRUE, code |-> 0, today |-> TRUE]

(***************************************************************************)
(* C27 (ledger invariants): after every add the ledger is in               *)
(* non-decreasing Datetime order with at most one row per (Datetime,       *)
(* Pair, Side), and a call all of whose events are rows of the ledger      *)
(* already leaves the ledger as it is.  As stated, the ledger being the    *)
(* table, rows in their order:                                             *)
(***************************************************************************)
RowsOf(s) == {s[i] : i \in DOMAIN s}

SortedByDatetime(s) ==
    \A i, j \in DOMAIN s : i <= j => s[i].Datetime <= s[j].Datetime

OnePerKey(s) ==
    \A i, j \in DOMAIN s : Key(s[i]) = Key(s[j]) => i = j

\* the call of this step added only rows the ledger held before it
AllKnown ==
    /\ converted' # <<>>
    /\ previous' = transactions
    /\ RowsOf(converted') \subseteq RowsOf(transactions)

C27_LedgerUnchanged ==
    [][/\ SortedByDatetime(transactions')
       /\ OnePerKey(transactions')
       /\ AllKnown => transactions' = transactions]_vars

(***************************************************************************)
(* C27 amended: such a call leaves the rows of the ledger as they are;     *)
(* the order of rows of equal Datetime may change, since the sort of line  *)
(* 38 is not a stable one.                                                 *)
(***************************************************************************)
C27_LedgerInvariants ==
    [][/\ SortedByDatetime(transactions')
       /\ OnePerKey(transactions')
       /\ AllKnown =>
            /\ RowsOf(transactions') = RowsOf(transactions)
            /\ Len(transactions') = Len(transactions)]_vars

\* the last call handed in two rows that the ledger held before, one of
\* them converted from EUR, and the ledger holds two rows of one Datetime
C27_Witness ==
    /\ Len(transactions) = 2
    /\ transactions[1].Datetime = transactions[2].Datetime
    /\ Len(converted) = 2
    /\ RowsOf(converted) = RowsOf(previous)
    /\ RowsOf(transactions) = RowsOf(previous)
    /\ \E i \in DOMAIN batch : batch[i].FeeCurrency = "EUR"

(***************************************************************************)
(* C28 (cost basis conserved over the pass): between the sells of an       *)
(* asset and after the last one, the Funds paid of the records emitted for *)
(* the asset plus the remaining funds of its lots equal the funds the lots *)
(* were bought for; at the end, all buy funds minus the Funds paid is the  *)
(* cost basis of what the lots still hold.                                 *)
(***************************************************************************)
PaidSoFar ==
    RSumSeq([i \in DOMAIN realized_profits |->
                IF realized_profits[i].Symbol = sym
                THEN realized_profits[i].FundsPaid ELSE R(0)])

RemainingFunds == RSumSeq([i \in DOMAIN df_sym_buy |-> df_sym_buy[i].Funds])

BoughtFor == RSumSeq([i \in DOMAIN df_sym_buy |-> OriginalLot(i).Funds])

C28_CostBasisConserved ==
    (pc \in {"sells", "loop", "done"} /\ df_sym_buy # <<>>) =>
        /\ RAdd(PaidSoFar, RemainingFunds) = BoughtFor
        /\ RSub(BoughtFor, PaidSoFar) = RemainingFunds

\* the pass is over after two sells; one lot is used up, another is partly
\* consumed and keeps part of its funds
C28_Witness ==
    /\ pc = "done"
    /\ Len(realized_profits) = 2
    /\ realized_profits[1].FundsPaid # R(0)
    /\ realized_profits[2].FundsPaid # R(0)
    /\ \E i \in DOMAIN df_sym_buy :
        df_sym_buy[i].Size = 0 /\ OriginalLot(i).Funds # R(0)
    /\ \E i \in DOMAIN df_sym_buy :
        /\ df_sym_buy[i].Size > 0
        /\ df_sym_buy[i].Funds # R(0)
        /\ df_sym_buy[i].Funds # OriginalLot(i).Funds

(***************************************************************************)
(* C29 (covered ledgers never fail): on a table in which every sell is     *)
(* covered by the size bought up to and including its timestamp less the   *)
(* size sold before it, each sell takes from the lots exactly its size,    *)
(* the assertion of line 144 passes and a record is appended, so that the  *)
(* call never raises and returns one record per sell.                      *)
(***************************************************************************)
AllCovered == \A e \in df : e.Side = "sell" => Covered(e)

TakenSize ==
    SumSeq([i \in DOMAIN df_sym_buy |->
                df_sym_buy[i].Size - df_sym_buy'[i].Size])

C29_CoveredNeverFails ==
    [][AllCovered =>
        /\ pc' # "raised"
        /\ (pc = "sells" /\ df_sym_sell # <<>>) =>
            /\ Emits
            /\ TakenSize = -Head(df_sym_sell).Size
        /\ pc' = "done" =>
            Len(realized_profits') =
                Cardinality({e \in df : e.Side = "sell"})]_vars

\* the call returned two records on a covered table; the first sell was for
\* funds and at the instant of a buy, and two lots were consumed from
C29_Witness ==
    /\ pc = "done"
    /\ AllCovered
    /\ Len(realized_profits) = 2
    /\ realized_profits[1].FundsReceived # R(0)
    /\ \E e \in df : e.Side = "buy"
                     /\ e.Datetime = realized_profits[1].Datetime
    /\ Cardinality({i \in DOMAIN df_sym_buy :
                        df_sym_buy[i].Size < OriginalLot(i).Size}) >= 2

(***************************************************************************)
(* C30 (taxable amount bounded by the profit): for every emitted record    *)
(* To be taxed <= Profit/Loss, and Profit/Loss - To be taxed is the sum of *)
(* the gains, none of them negative, on the lots touched by the sell that  *)
(* were held for more than 365 whole days.                                 *)
(***************************************************************************)
ExemptGain(before, after, row) ==
    LET profit  == LotProfit(before, after, SalePrice(row))
        touched == before.Size # after.Size \/ before.Funds # after.Funds
    IN  IF touched /\ WholeDaysHeld(row, before) > 365 /\ ~RLt0(profit)
        THEN profit ELSE R(0)

====
